---- MODULE Spec2Model ----
(***************************************************************************)
(* Model of flatui's src/font_util.cpp: TrimHtmlWhitespace, StartHtmlLine, *)
(* ShouldTrimLeadingWhitespace, GumboTreeToHtmlSections and ParseHtml.     *)
(*                                                                         *)
(* A std::string is a sequence of one-character strings.  The document     *)
(* tree is read in document order, one node per step, exactly as the       *)
(* recursion of GumboTreeToHtmlSections visits it: entering an element     *)
(* runs its prefix switch, leaving it runs its postfix switch, a text node *)
(* runs the GUMBO_NODE_TEXT case.  The recursion's frames are `stack`.     *)
(***************************************************************************)
EXTENDS Integers, Sequences, FiniteSets, TLC

\* ------------------------------------------------------------- bounds
\* Number of nodes below the root element that a document may hold.
MaxNodes == 4
\* Number of elements that may be open at once below the root element.
MaxDepth == 2
\* Length of the raw text handed to a direct call of TrimHtmlWhitespace.
MaxLen == 3

\* ------------------------------------------------------------- alphabet
\* std::isspace in the "C" locale: space, \t, \n, \v, \f, \r.
Whitespace == {" ", "\t", "\n", "VT", "\f", "\r"}

IsSpace(c) == c \in Whitespace

\* Tags of the prefix and postfix switches; "B" stands for every tag that
\* falls to `default`.
Headings == {"H1", "H2", "H3", "H4", "H5", "H6"}
LineTags == {"P"} \cup Headings

\* gumbo_get_attribute(&element.attributes, "href") == nullptr
NoHref == "nullptr"

\* ------------------------------------------------------------- inputs
\* Raw character data of the text nodes of the documents walked.
TextSamples == {<<"x">>, <<" ", "x">>, <<"x", " ">>, <<" ">>}
\* href values of the anchors of the documents walked.
HrefSamples == {NoHref, "u", "v"}
\* Tags of the elements of the documents walked.
LineSamples == {"P", "H1"}
PlainSamples == {"HR", "BR", "B"}
\* Characters of the raw text handed to a direct call of TrimHtmlWhitespace.
TrimChars == {"x", "y", " ", "\n"}
\* Prior content of `out` at a direct call of TrimHtmlWhitespace.
PriorSamples == {<<>>, <<"x">>, <<"x", " ">>}

RECURSIVE StringsUpTo(_, _)
StringsUpTo(chars, n) ==
    IF n = 0 THEN {<<>>}
    ELSE LET shorter == StringsUpTo(chars, n - 1)
         IN shorter \cup {Append(w, c) : w \in shorter, c \in chars}

\* ------------------------------------------------------------- TrimHtmlWhitespace
\* while (std::isspace(*t)) ++t;   (t is a 1-based index, Len+1 is '\0')
RECURSIVE SkipSpace(_, _)
SkipSpace(text, t) ==
    IF t <= Len(text) /\ IsSpace(text[t]) THEN SkipSpace(text, t + 1) ELSE t

\* while (!std::isspace(*t) && *t != '\0') ...   the index where it stops
RECURSIVE SkipWord(_, _)
SkipWord(text, t) ==
    IF t <= Len(text) /\ ~IsSpace(text[t]) THEN SkipWord(text, t + 1) ELSE t

\* The for (;;) loop of TrimHtmlWhitespace.
RECURSIVE TrimLoop(_, _, _)
TrimLoop(text, t, out) ==
    LET e == SkipWord(text, t)
        copied == out \o SubSeq(text, t, e - 1)
    IN IF e > Len(text) THEN copied
       ELSE TrimLoop(text, SkipSpace(text, e), Append(copied, " "))

\* Variant of the loop whose "skip whitespace" step is an `if`, not a `while`.
RECURSIVE TrimLoopSkipsOne(_, _, _)
TrimLoopSkipsOne(text, t, out) ==
    LET e == SkipWord(text, t)
        copied == out \o SubSeq(text, t, e - 1)
    IN IF e > Len(text) THEN copied
       ELSE TrimLoopSkipsOne(text, e + 1, Append(copied, " "))

TrimHtmlWhitespaceSkipsOne(text, trim_leading_whitespace, out) ==
    TrimLoopSkipsOne(text, IF trim_leading_whitespace THEN SkipSpace(text, 1) ELSE 1,
                     out)

\* Variant of the loop that tests for the end of input after skipping the
\* whitespace, and so trims trailing whitespace.
RECURSIVE TrimLoopTrimsEnd(_, _, _)
TrimLoopTrimsEnd(text, t, out) ==
    LET e == SkipWord(text, t)
        copied == out \o SubSeq(text, t, e - 1)
    IN IF SkipSpace(text, e) > Len(text) THEN copied
       ELSE TrimLoopTrimsEnd(text, SkipSpace(text, e), Append(copied, " "))

TrimHtmlWhitespaceTrimsEnd(text, trim_leading_whitespace, out) ==
    TrimLoopTrimsEnd(text, IF trim_leading_whitespace THEN SkipSpace(text, 1) ELSE 1,
                     out)

TrimHtmlWhitespace(text, trim_leading_whitespace, out) ==
    TrimLoop(text, IF trim_leading_whitespace THEN SkipSpace(text, 1) ELSE 1, out)

\* ------------------------------------------------------------- StartHtmlLine
\* while (std::isspace(out->back())) out->pop_back();  on a non-empty string:
\* what is left when the loop reaches a non-whitespace character or has
\* popped every character.
RECURSIVE TrimTrailing(_)
TrimTrailing(out) ==
    IF out # <<>> /\ IsSpace(out[Len(out)])
    THEN TrimTrailing(SubSeq(out, 1, Len(out) - 1))
    ELSE out

\* The loop evaluates out->back() on an empty string exactly when it finds
\* no non-whitespace character to stop at.
StartHtmlLineReadsEmpty(out) == TrimTrailing(out) = <<>>

\* The result when the loop stops without popping an empty string.
StartHtmlLine(prefix, out) ==
    LET trimmed == TrimTrailing(out)
    IN IF trimmed # <<>> THEN trimmed \o prefix ELSE trimmed

\* ------------------------------------------------------------- ShouldTrimLeadingWhitespace
prev_text(s) ==
    IF s[Len(s)].text = <<>> THEN s[Len(s) - 1].text ELSE s[Len(s)].text

\* prev_text.back() is evaluated on an empty string
ShouldTrimReadsEmpty(s) == Len(s) > 1 /\ prev_text(s) = <<>>

\* The values the call can return: std::isspace of an out-of-bounds read can
\* be either.
ShouldTrimLeadingWhitespace(s) ==
    IF Len(s) <= 1 THEN {TRUE}
    ELSE IF prev_text(s) = <<>> THEN BOOLEAN
    ELSE {IsSpace(prev_text(s)[Len(prev_text(s))])}

\* ------------------------------------------------------------- state
VARIABLES
    pc,        \* position in ParseHtml: "start", "walk", "prune", "done", "fault"
    s,         \* std::vector<HtmlSection>: records [text, link]
    stack,     \* open elements: [tag, href, node_section], root first
    flat,      \* text of the one section of the walk over the same document
               \* with every anchor element replaced by its children
    flatSeen,  \* history of that walk: whether the node it visited last was
               \* a text node, and whether it met two adjacent text nodes
    origin,    \* history: for every section, where each character came from
    began,     \* history: for every section, the hrefs of the anchors that
               \* began (after their prefix step) while it was the last one
    count,     \* history: nodes visited, anchors, anchors that pushed at start,
               \* text nodes, elements whose tag the switches name
    owed,      \* history: depth of the outermost open p/h element that began
               \* after non-whitespace text and has had no text yet, else 0
    ev,        \* history: the step taken last; for a text node its raw text,
               \* the concatenated section texts before it and whether a
               \* p/h element was waiting for its first text
    ub,        \* history: back() has been evaluated on an empty string
    tin,       \* a direct call of TrimHtmlWhitespace: [text, trim, prior]
    tout,      \* its `out` after the call
    tpc        \* "call" before it, "ret" after it, "off" in the walk

vars == <<pc, s, stack, flat, flatSeen, origin, began, count, owed, ev, ub, tin, tout, tpc>>
trimVars == <<tin, tout, tpc>>

HtmlSection == [text |-> <<>>, link |-> ""]

back == Len(s)

RECURSIVE Concat(_)
Concat(secs) ==
    IF secs = <<>> THEN <<>> ELSE secs[1].text \o Concat(Tail(secs))

HasNonSpace(str) == \E i \in 1..Len(str) : ~IsSpace(str[i])

InAnchor == \E i \in 1..Len(stack) : stack[i].tag = "A"

Repeat(x, n) == [i \in 1..n |-> x]

\* History of the characters of a string that kept its first `kept`
\* characters and now has the length of `now`.
Mark(old, kept, now, o) == SubSeq(old, 1, kept) \o Repeat(o, Len(now) - kept)

\* ------------------------------------------------------------- Init
NoCall == [text |-> <<>>, trim |-> FALSE, prior |-> <<>>]

NoEvent(kind) == [kind |-> kind, raw |-> <<>>, before |-> <<>>, owed |-> FALSE]

\* ParseHtml: std::vector<HtmlSection> s(1);
Init ==
    /\ pc = "start"
    /\ s = <<HtmlSection>>
    /\ stack = <<>>
    /\ flat = <<>>
    /\ flatSeen = [text |-> FALSE, adjacent |-> FALSE]
    /\ origin = <<<<>>>>
    /\ began = <<{}>>
    /\ count = [nodes |-> 0, anchors |-> 0, pushed |-> 0, texts |-> 0, named |-> 0]
    /\ owed = 0
    /\ ev = NoEvent("none")
    /\ ub = FALSE
    /\ tin = NoCall
    /\ tout = <<>>
    /\ tpc = "off"

\* ------------------------------------------------------------- GumboTreeToHtmlSections
Frame(tag, href, node_section) ==
    [tag |-> tag, href |-> href, node_section |-> node_section]

top == stack[Len(stack)]

\* <hr> and <br> are void elements: the parser gives them no children.
VoidTags == {"HR", "BR"}

\* A child node can be visited: the walk is inside an element that can have
\* children and the document has nodes left.
CanVisit ==
    /\ pc = "walk"
    /\ stack # <<>>
    /\ top.tag \notin VoidTags
    /\ count.nodes < MaxNodes

CanEnter == CanVisit /\ Len(stack) - 1 < MaxDepth

Visited(kind) == ev' = NoEvent(kind)

\* What the walk over the document without anchors has seen after a node.
FlatVisited(isText) ==
    flatSeen' = [text |-> isText,
                 adjacent |-> flatSeen.adjacent \/ (isText /\ flatSeen.text)]

VisitedText(raw) ==
    ev' = [kind |-> "text", raw |-> raw, before |-> Concat(s), owed |-> owed # 0]

\* gumbo_parse, then GumboTreeToHtmlSections(gumbo->root, &s): the root is
\* the <html> element, which takes the `default` prefix.
Begin ==
    /\ pc = "start"
    /\ pc' = "walk"
    /\ stack' = <<Frame("HTML", NoHref, back)>>
    /\ UNCHANGED <<s, flat, flatSeen, origin, began, count, owed, ev, ub, trimVars>>

\* Variant of the anchor prefix that never starts a section.
EnterAnchorNeverPushes(href) ==
    /\ CanEnter
    /\ s' = s
    /\ origin' = origin
    /\ began' = IF href = NoHref THEN began
                ELSE [began EXCEPT ![back] = @ \cup {href}]
    /\ stack' = Append(stack, Frame("A", href, back))
    /\ count' = [count EXCEPT !.nodes = @ + 1, !.anchors = @ + 1, !.named = @ + 1]
    /\ Visited("element")
    /\ UNCHANGED <<pc, flat, flatSeen, owed, ub, trimVars>>

\* Variant of the anchor prefix that starts a section whatever the last
\* section holds.
EnterAnchorAlwaysPushes(href) ==
    /\ CanEnter
    /\ s' = Append(s, HtmlSection)
    /\ origin' = Append(origin, <<>>)
    /\ began' = Append(began, IF href = NoHref THEN {} ELSE {href})
    /\ stack' = Append(stack, Frame("A", href, back + 1))
    /\ count' = [count EXCEPT !.nodes = @ + 1, !.anchors = @ + 1,
                              !.pushed = @ + (IF s[back].text # <<>> THEN 1 ELSE 0),
                              !.named = @ + 1]
    /\ Visited("element")
    /\ UNCHANGED <<pc, flat, flatSeen, owed, ub, trimVars>>

\* case GUMBO_TAG_A of the prefix switch, then node_section = s->size() - 1.
EnterAnchor(href) ==
    /\ CanEnter
    /\ LET push == s[back].text # <<>>
           s1 == IF push THEN Append(s, HtmlSection) ELSE s
           o1 == IF push THEN Append(origin, <<>>) ELSE origin
           b1 == IF push THEN Append(began, {}) ELSE began
       IN /\ s' = s1
          /\ origin' = o1
          /\ began' = IF href = NoHref THEN b1
                      ELSE [b1 EXCEPT ![Len(s1)] = @ \cup {href}]
          /\ stack' = Append(stack, Frame("A", href, Len(s1)))
          /\ count' = [count EXCEPT !.nodes = @ + 1, !.anchors = @ + 1,
                                    !.pushed = @ + (IF push THEN 1 ELSE 0),
                                    !.named = @ + 1]
    /\ Visited("element")
    /\ UNCHANGED <<pc, flat, flatSeen, owed, ub, trimVars>>

\* case GUMBO_TAG_P .. GUMBO_TAG_H6 of the prefix switch:
\* StartHtmlLine("\n\n", &s->back().text).  When the loop of StartHtmlLine
\* reads back() of an empty string, std::isspace of that read is either
\* false (the loop stops, nothing is appended) or true (pop_back on an empty
\* string, from which the walk does not recover).
EnterLine(tag) ==
    /\ CanEnter
    /\ tag \in LineTags
    /\ LET text == s[back].text
           reads == StartHtmlLineReadsEmpty(text)
           text1 == StartHtmlLine(<<"\n", "\n">>, text)
       IN /\ ub' = (ub \/ reads)
          /\ \E popsEmpty \in (IF reads THEN BOOLEAN ELSE {FALSE}) :
               IF popsEmpty
               THEN /\ pc' = "fault"
                    /\ UNCHANGED <<s, stack, flat, flatSeen, origin, owed>>
               ELSE /\ pc' = pc
                    /\ s' = [s EXCEPT ![back].text = text1]
                    /\ origin' = [origin EXCEPT ![back] =
                                    Mark(@, Len(TrimTrailing(text)), text1, "tag")]
                    /\ stack' = Append(stack, Frame(tag, NoHref, back))
                    /\ flat' = StartHtmlLine(<<"\n", "\n">>, flat)
                    /\ FlatVisited(FALSE)
                    /\ owed' = IF owed = 0 /\ HasNonSpace(Concat(s))
                               THEN Len(stack) + 1 ELSE owed
    /\ count' = [count EXCEPT !.nodes = @ + 1, !.named = @ + 1]
    /\ Visited("element")
    /\ UNCHANGED <<began, trimVars>>

\* `default` of the prefix switch (also GUMBO_TAG_HR and GUMBO_TAG_BR).
EnterPlain(tag) ==
    /\ CanEnter
    /\ tag \notin LineTags \cup {"A"}
    /\ stack' = Append(stack, Frame(tag, NoHref, back))
    /\ count' = [count EXCEPT !.nodes = @ + 1,
                              !.named = @ + (IF tag \in VoidTags THEN 1 ELSE 0)]
    /\ Visited("element")
    /\ FlatVisited(FALSE)
    /\ UNCHANGED <<pc, s, flat, origin, began, owed, ub, trimVars>>

\* case GUMBO_NODE_TEXT: TrimHtmlWhitespace(text, ShouldTrim...(*s),
\* &s->back().text).  A hardened build stops at the out-of-bounds back().
\* The parser merges adjacent character data into one text node, so a text
\* node never follows a text node directly.
TextNode(raw) ==
    /\ CanVisit
    /\ ev.kind # "text"
    /\ ub' = (ub \/ ShouldTrimReadsEmpty(s))
    /\ \/ /\ ShouldTrimReadsEmpty(s)
          /\ pc' = "fault"
          /\ UNCHANGED <<s, flat, flatSeen, origin, owed>>
       \/ \E trim \in ShouldTrimLeadingWhitespace(s) :
            LET text1 == TrimHtmlWhitespace(raw, trim, s[back].text)
            IN /\ pc' = pc
               /\ s' = [s EXCEPT ![back].text = text1]
               /\ origin' = [origin EXCEPT ![back] =
                               Mark(@, Len(@), text1, IF InAnchor THEN "in" ELSE "out")]
               /\ flat' = TrimHtmlWhitespace(raw, TRUE, flat)
               /\ FlatVisited(TRUE)
               /\ owed' = IF HasNonSpace(raw) THEN 0 ELSE owed
    /\ count' = [count EXCEPT !.nodes = @ + 1, !.texts = @ + 1]
    /\ VisitedText(raw)
    /\ UNCHANGED <<stack, began, trimVars>>

\* `default` of the node type switch: comments and the like.
OtherNode ==
    /\ CanVisit
    /\ count' = [count EXCEPT !.nodes = @ + 1]
    /\ Visited("other")
    /\ FlatVisited(FALSE)
    /\ UNCHANGED <<pc, s, stack, flat, origin, began, owed, ub, trimVars>>

\* The children loop of the element on top has ended.
CanLeave(tags) == pc = "walk" /\ stack # <<>> /\ top.tag \in tags

Left ==
    /\ stack' = SubSeq(stack, 1, Len(stack) - 1)
    /\ pc' = IF Len(stack) = 1 THEN "prune" ELSE pc
    /\ owed' = IF owed = Len(stack) THEN 0 ELSE owed
    /\ Visited("end")

\* case GUMBO_TAG_A of the postfix switch.
LeaveAnchor ==
    /\ CanLeave({"A"})
    /\ LET linked == IF top.href # NoHref
                     THEN [s EXCEPT ![top.node_section].link = top.href]
                     ELSE s
       IN s' = Append(linked, HtmlSection)
    /\ origin' = Append(origin, <<>>)
    /\ began' = Append(began, {})
    /\ Left
    /\ UNCHANGED <<flat, flatSeen, count, ub, trimVars>>

AppendBreak(brk) ==
    /\ s' = [s EXCEPT ![back].text = @ \o brk]
    /\ origin' = [origin EXCEPT ![back] = @ \o Repeat("tag", Len(brk))]
    /\ flat' = flat \o brk
    /\ FlatVisited(FALSE)

\* case GUMBO_TAG_HR, GUMBO_TAG_P of the postfix switch.
LeaveBlock ==
    /\ CanLeave({"HR", "P"})
    /\ AppendBreak(<<"\n", "\n">>)
    /\ Left
    /\ UNCHANGED <<began, count, ub, trimVars>>

\* case GUMBO_TAG_H1 .. GUMBO_TAG_H6, GUMBO_TAG_BR of the postfix switch.
LeaveBreak ==
    /\ CanLeave(Headings \cup {"BR"})
    /\ AppendBreak(<<"\n">>)
    /\ Left
    /\ UNCHANGED <<began, count, ub, trimVars>>

\* `default` of the postfix switch.
LeavePlain ==
    /\ CanLeave({"HTML", "B"})
    /\ Left
    /\ FlatVisited(FALSE)
    /\ UNCHANGED <<s, flat, origin, began, count, ub, trimVars>>

\* Variant of ParseHtml without the pruning of the last section.
PruneKeepsLast ==
    /\ pc = "prune"
    /\ pc' = "done"
    /\ Visited("end")
    /\ UNCHANGED <<s, origin, began, stack, flat, flatSeen, count, owed, ub, trimVars>>

\* ParseHtml: if (s.back().text.empty()) s.pop_back();  The walk over the
\* document without anchors ends the same way.
Prune ==
    /\ pc = "prune"
    /\ pc' = "done"
    /\ LET keep == IF s[back].text = <<>> THEN back - 1 ELSE back
       IN /\ s' = SubSeq(s, 1, keep)
          /\ origin' = SubSeq(origin, 1, keep)
          /\ began' = SubSeq(began, 1, keep)
    /\ Visited("end")
    /\ UNCHANGED <<stack, flat, flatSeen, count, owed, ub, trimVars>>

Next ==
    \/ Begin
    \/ \E tag \in PlainSamples : EnterPlain(tag)
    \/ \E href \in HrefSamples : EnterAnchor(href)
    \/ \E tag \in LineSamples : EnterLine(tag)
    \/ \E raw \in TextSamples : TextNode(raw)
    \/ OtherNode
    \/ LeaveAnchor
    \/ LeaveBlock
    \/ LeaveBreak
    \/ LeavePlain
    \/ Prune

Spec == Init /\ [][Next]_vars

\* ------------------------------------------------------------- direct calls of TrimHtmlWhitespace
\* A caller holds a text, a flag and an `out` with some prior content.
InitTrim ==
    /\ pc = "idle"
    /\ s = <<HtmlSection>>
    /\ stack = <<>>
    /\ flat = <<>>
    /\ flatSeen = [text |-> FALSE, adjacent |-> FALSE]
    /\ origin = <<<<>>>>
    /\ began = <<{}>>
    /\ count = [nodes |-> 0, anchors |-> 0, pushed |-> 0, texts |-> 0, named |-> 0]
    /\ owed = 0
    /\ ev = NoEvent("none")
    /\ ub = FALSE
    /\ tin \in [text : StringsUpTo(TrimChars, MaxLen), trim : BOOLEAN,
                prior : PriorSamples]
    /\ tout = tin.prior
    /\ tpc = "call"

CallTrim ==
    /\ tpc = "call"
    /\ tout' = TrimHtmlWhitespace(tin.text, tin.trim, tout)
    /\ tpc' = "ret"
    /\ UNCHANGED <<pc, s, stack, flat, flatSeen, origin, began, count, owed, ev, ub, tin>>

NextTrim == CallTrim

SpecTrim == InitTrim /\ [][NextTrim]_vars

\* ------------------------------------------------------------- vocabulary of the properties
Last(str) == str[Len(str)]

AllSpace(str) == \A i \in 1..Len(str) : IsSpace(str[i])

\* The part of `out` a direct call appended, when the prior content is kept.
Appended == SubSeq(tout, Len(tin.prior) + 1, Len(tout))

\* Character i of `text` starts a whitespace run.
StartsRun(text, i) == IsSpace(text[i]) /\ (i = 1 \/ ~IsSpace(text[i - 1]))

\* Character i of `text` lies in the whitespace run the text begins with.
InLeadingRun(text, i) == \A j \in 1..i : IsSpace(text[j])

\* `text` with every maximal whitespace run replaced by one space, the
\* leading run dropped when `trim` is set: the characters that survive are
\* the non-whitespace ones and the first one of every run that stays.
Collapsed(text, trim) ==
    LET Survives(i) == \/ ~IsSpace(text[i])
                       \/ StartsRun(text, i) /\ ~(trim /\ InLeadingRun(text, i))
        kept == SelectSeq([i \in 1..Len(text) |-> i], Survives)
    IN [k \in 1..Len(kept) |->
          IF IsSpace(text[kept[k]]) THEN " " ELSE text[kept[k]]]

\* The whitespace run `text` ends with.
RECURSIVE TrailingRun(_)
TrailingRun(text) ==
    IF text # <<>> /\ IsSpace(Last(text))
    THEN Append(TrailingRun(SubSeq(text, 1, Len(text) - 1)), Last(text))
    ELSE <<>>

EndsWith(str, suffix) ==
    /\ Len(suffix) <= Len(str)
    /\ SubSeq(str, Len(str) - Len(suffix) + 1, Len(str)) = suffix

\* A newline follows the last non-whitespace character of `str`.
NewlineAfterLastText(str) ==
    \E i \in 1..Len(str) :
        /\ str[i] = "\n"
        /\ \A j \in i..Len(str) : IsSpace(str[j])

Returned == pc = "done"

\* ------------------------------------------------------------- properties

\* C1: text of a text node outside every anchor is never in a section with a
\* link; a section has a link only if it was the last section when an anchor
\* with an href began (after the anchor's prefix step), and the link is the
\* href of such an anchor; a section on which only anchors without href began
\* keeps an empty link.
C1_LinkOnlyOnAnchorSection ==
    pc \in {"walk", "prune", "done"} =>
        /\ Len(origin) = Len(s) /\ Len(began) = Len(s)
        /\ \A i \in 1..Len(s) :
             /\ Len(origin[i]) = Len(s[i].text)
             /\ s[i].link # "" =>
                  /\ s[i].link \in began[i]
                  /\ \A k \in 1..Len(origin[i]) : origin[i][k] # "out"

\* A returned document with a linked anchor text and text outside anchors.
C1_Witness ==
    /\ Returned
    /\ \E i, j \in 1..Len(s) :
         /\ s[i].link = "u" /\ s[i].text # <<>>
         /\ \E k \in 1..Len(origin[j]) : origin[j][k] = "out"

AnchorStarts ==
    Len(stack') = Len(stack) + 1 /\ stack'[Len(stack')].tag = "A"

AnchorEnds ==
    Len(stack') = Len(stack) - 1 /\ top.tag = "A"

\* C2: during the walk the sequence grows by one section exactly when an
\* anchor starts while the last section's text is non-empty or when an anchor
\* ends, and never shrinks; so when the walk ends its length is 1 + the
\* number of anchors + the number of anchors that started on a non-empty last
\* section, and without any anchor it is 1.
C2_SectionsGrowOnlyAtAnchors ==
    /\ [][pc = "walk" =>
            /\ Len(s') = Len(s) + (IF \/ AnchorStarts /\ s[back].text # <<>>
                                      \/ AnchorEnds
                                   THEN 1 ELSE 0)
            /\ \A i \in 1..Len(s) : i # back => s'[i].text = s[i].text]_vars
    /\ [](pc = "prune" =>
            /\ Len(s) = 1 + count.anchors + count.pushed
            /\ count.anchors = 0 => Len(s) = 1)

\* The walk of a document with anchors that did and did not start a section.
C2_Witness ==
    /\ pc = "prune"
    /\ count.pushed >= 1
    /\ count.anchors > count.pushed

\* C3: the returned sequence is empty or its last section has text.
C3_NoTrailingEmptySection ==
    Returned => (s = <<>> \/ s[Len(s)].text # <<>>)

\* C4 as claimed: a document without any text node yields no section.
C4_NoTextNoSections ==
    (Returned /\ count.texts = 0) => s = <<>>

\* C4 as amended: a document without any text node and without any a, p,
\* h1..h6, br or hr element yields no section.
C4_NoTextNoNamedTagNoSections ==
    (Returned /\ count.texts = 0 /\ count.named = 0) => s = <<>>

\* A returned document of elements only, none of them named by the switches.
C4_Witness ==
    /\ Returned
    /\ count.texts = 0 /\ count.named = 0 /\ count.nodes >= 2
    /\ s = <<>>

\* C5: a direct call keeps the prior content of `out` and appends the text
\* with every whitespace run replaced by one space (the leading run dropped
\* under trim_leading_whitespace); the appended part has no two adjacent
\* whitespace characters; the empty text, and a whitespace-only text under
\* trim_leading_whitespace, append nothing.
C5_TrimCollapsesRuns ==
    tpc = "ret" =>
        /\ tout = tin.prior \o Collapsed(tin.text, tin.trim)
        /\ \A i \in 1..(Len(Appended) - 1) :
             ~(IsSpace(Appended[i]) /\ IsSpace(Appended[i + 1]))
        /\ tin.text = <<>> => tout = tin.prior
        /\ (tin.trim /\ AllSpace(tin.text)) => tout = tin.prior

\* A call on a text with a run of two whitespace characters before a word,
\* appending to a non-empty `out`.
C5_Witness ==
    /\ tpc = "ret"
    /\ tin.prior # <<>>
    /\ \E i \in 1..(Len(tin.text) - 2) :
         IsSpace(tin.text[i]) /\ IsSpace(tin.text[i + 1]) /\ ~IsSpace(tin.text[i + 2])
    /\ Len(tout) > Len(tin.prior)

\* C6 as claimed: the whitespace run a text ends with is appended verbatim.
C6_TrailingRunVerbatim ==
    (tpc = "ret" /\ tin.text # <<>> /\ IsSpace(Last(tin.text))) =>
        EndsWith(Appended, TrailingRun(tin.text))

\* C6 as amended: the whitespace run a text ends with is appended as exactly
\* one space, except that nothing is appended for a whitespace-only text
\* under trim_leading_whitespace.
C6_TrailingRunOneSpace ==
    (tpc = "ret" /\ tin.text # <<>> /\ IsSpace(Last(tin.text))) =>
        IF tin.trim /\ AllSpace(tin.text)
        THEN Appended = <<>>
        ELSE /\ Appended # <<>>
             /\ Last(Appended) = " "
             /\ Len(Appended) = 1 \/ ~IsSpace(Appended[Len(Appended) - 1])

\* A call on a word followed by two whitespace characters.
C6_Witness ==
    /\ tpc = "ret"
    /\ HasNonSpace(tin.text)
    /\ Len(TrailingRun(tin.text)) >= 2
    /\ Last(tout) = " "

\* C7: the concatenated texts of the returned sections equal those of the
\* same document with its anchor elements unwrapped.  Stated for the walks
\* that never evaluate back() on an empty string, where the code's result is
\* fully defined, and for the documents that have no two adjacent text nodes
\* once unwrapped, as the parser builds them.
C7_ConcatIgnoresAnchors ==
    (Returned /\ ~ub /\ ~flatSeen.adjacent) => Concat(s) = flat

\* C8: back() is never evaluated on an empty string, and the sequence is
\* never empty during the walk.
C8_NeverReadsBackOfEmpty ==
    /\ ~ub
    /\ pc \in {"walk", "prune"} => s # <<>>

\* C9: when the first text of a p/h element that began after non-whitespace
\* text is appended, a newline separates it from that earlier text.
C9_BreakBeforeParagraphText ==
    (ev.kind = "text" /\ pc = "walk" /\ ev.owed /\ HasNonSpace(ev.raw)) =>
        NewlineAfterLastText(ev.before)

\* C10: a text node that begins with whitespace and follows output ending in
\* a non-whitespace character contributes a space first.
C10_KeepsOneSpace ==
    (/\ ev.kind = "text" /\ pc = "walk"
     /\ ev.raw # <<>> /\ IsSpace(ev.raw[1])
     /\ ev.before # <<>> /\ ~IsSpace(Last(ev.before))) =>
        /\ Len(Concat(s)) > Len(ev.before)
        /\ Concat(s)[Len(ev.before) + 1] = " "

====
